---- MODULE Spec2Model ----
(***************************************************************************)
(* A model of i18n_audit.py: the .resx reconciler (parse_resx,             *)
(* placeholder_sig, fix_locale) and the run of main over the four locales. *)
(*                                                                         *)
(* A text is a sequence of tokens.  A token is one character ("LF", "CR",  *)
(* "FF", "SP", a letter, a digit, a brace, a quote) or one of the fixed    *)
(* literals of DATA_LINE_RE ("<data", "name=", "xml:space=", "preserve",   *)
(* "><value>", "</value>", "<comment>", "</comment>", "</data>").          *)
(***************************************************************************)
EXTENDS Integers, Sequences, FiniteSets, TLC

LF == "LF"
CR == "CR"
FF == "FF"
SP == "SP"
QUOTE == "\""

\* ---------------------------------------------------------------- strings

Last(s) == s[Len(s)]

Min(S) == CHOOSE x \in S : \A y \in S : x <= y

ToSet(s) == {s[i] : i \in 1..Len(s)}

RECURSIVE Flatten(_)
Flatten(ss) == IF ss = <<>> THEN <<>> ELSE Head(ss) \o Flatten(Tail(ss))

\* Python's s[a:b] on a list (0-based, negative indices count from the end).
PySlice(s, a, b) ==
    LET n  == Len(s)
        na == IF a < 0 THEN (IF a + n < 0 THEN 0 ELSE a + n) ELSE (IF a > n THEN n ELSE a)
        nb == IF b < 0 THEN (IF b + n < 0 THEN 0 ELSE b + n) ELSE (IF b > n THEN n ELSE b)
    IN  IF na >= nb THEN <<>> ELSE SubSeq(s, na + 1, nb)

\* str.endswith(suffix)
EndsWith(s, suf) ==
    /\ Len(suf) <= Len(s)
    /\ SubSeq(s, Len(s) - Len(suf) + 1, Len(s)) = suf

\* "\r\n" in text
HasCRLF(text) == \E i \in 1..(Len(text) - 1) : text[i] = CR /\ text[i + 1] = LF

\* str.join
RECURSIVE Join(_, _)
Join(lines, nl) ==
    IF lines = <<>> THEN <<>>
    ELSE IF Len(lines) = 1 THEN lines[1]
    ELSE lines[1] \o nl \o Join(Tail(lines), nl)

\* The line boundaries of str.splitlines: LF, CR, CR LF, and the other
\* separators (VT, FF, FS, GS, RS, NEL, LS, PS), which FF stands for.
IsBreak(c) == c \in {LF, CR, FF}

\* str.splitlines(): a trailing boundary opens no empty last line.
RECURSIVE SplitFrom(_, _, _)
SplitFrom(text, i, cur) ==
    IF i > Len(text) THEN (IF cur = <<>> THEN <<>> ELSE <<cur>>)
    ELSE IF IsBreak(text[i])
         THEN LET step == IF text[i] = CR /\ i < Len(text) /\ text[i + 1] = LF
                          THEN 2 ELSE 1
              IN  <<cur>> \o SplitFrom(text, i + step, <<>>)
         ELSE SplitFrom(text, i + 1, Append(cur, text[i]))

SplitLines(text) == SplitFrom(text, 1, <<>>)

\* The code point that orders a token (that of its first character).
Code(c) ==
    CASE c = "LF" -> 10 [] c = "FF" -> 12 [] c = "CR" -> 13 [] c = "SP" -> 32
      [] c = QUOTE -> 34 [] c = "0" -> 48 [] c = "1" -> 49
      [] c \in {"<data", "</value>", "<comment>", "</comment>", "</data>"} -> 60
      [] c = "><value>" -> 62
      [] c = "E" -> 69 [] c = "F" -> 70 [] c = "G" -> 71
      [] c = "name=" -> 110 [] c = "preserve" -> 112
      [] c = "x" -> 120 [] c = "xml:space=" -> 120 [] c = "y" -> 121
      [] c = "{" -> 123 [] c = "}" -> 125
      [] OTHER -> 0

\* a < b on str (lexicographic by code point)
RECURSIVE StrLess(_, _)
StrLess(a, b) ==
    IF b = <<>> THEN FALSE
    ELSE IF a = <<>> THEN TRUE
    ELSE IF Code(a[1]) # Code(b[1]) THEN Code(a[1]) < Code(b[1])
    ELSE StrLess(Tail(a), Tail(b))

\* sorted(S) for a set or list of str: ascending, by insertion.
RECURSIVE Insert(_, _)
Insert(x, s) ==
    IF s = <<>> THEN <<x>>
    ELSE IF StrLess(x, s[1]) THEN <<x>> \o s
    ELSE <<s[1]>> \o Insert(x, Tail(s))

RECURSIVE SortedSeq(_)
SortedSeq(s) == IF s = <<>> THEN <<>> ELSE Insert(s[1], SortedSeq(Tail(s)))

RECURSIVE SetToSeq(_)
SetToSeq(S) ==
    IF S = {} THEN <<>>
    ELSE LET x == CHOOSE y \in S : TRUE IN <<x>> \o SetToSeq(S \ {x})

Sorted(S) == SortedSeq(SetToSeq(S))

\* Path.read_text(encoding="utf-8"): the file is opened in text mode with
\* newline=None, so CR LF and a lone CR are read as LF.
RECURSIVE ReadFrom(_, _)
ReadFrom(raw, i) ==
    IF i > Len(raw) THEN <<>>
    ELSE IF raw[i] = CR
         THEN <<LF>> \o ReadFrom(raw, IF i < Len(raw) /\ raw[i + 1] = LF THEN i + 2 ELSE i + 1)
         ELSE <<raw[i]>> \o ReadFrom(raw, i + 1)

ReadText(raw) == ReadFrom(raw, 1)

\* Path.write_text(text, encoding="utf-8"): text mode with newline=None, so each
\* LF is written as os.linesep.
RECURSIVE WriteText(_, _)
WriteText(text, linesep) ==
    IF text = <<>> THEN <<>>
    ELSE (IF Head(text) = LF THEN linesep ELSE <<Head(text)>>)
         \o WriteText(Tail(text), linesep)

\* ---------------------------------------------------------- DATA_LINE_RE

\* \s
IsSpace(c) == c \in {SP, LF, CR, FF}

\* . (anything but a newline)
IsDot(c) == c # LF

\* the first index >= i of line that holds no whitespace (Len+1 if none)
SkipSpace(line, i) ==
    Min({j \in i..(Len(line) + 1) : j = Len(line) + 1 \/ ~IsSpace(line[j])})

\* </data>\s*$ at index r
EndAt(line, r) ==
    /\ r <= Len(line)
    /\ line[r] = "</data>"
    /\ \A j \in (r + 1)..Len(line) : IsSpace(line[j])

\* (?:<comment>(.*?)</comment>)?</data>\s*$ at index p: the set of indices q of
\* a closing </comment> that completes the match with the comment group taken.
CommentEnds(line, p) ==
    IF p <= Len(line) /\ line[p] = "<comment>"
    THEN {q \in (p + 1)..Len(line) :
            /\ line[q] = "</comment>"
            /\ \A j \in (p + 1)..(q - 1) : IsDot(line[j])
            /\ EndAt(line, q + 1)}
    ELSE {}

TailAt(line, p) == CommentEnds(line, p) # {} \/ EndAt(line, p)

NoMatch == [ok |-> FALSE, key |-> <<>>, val |-> <<>>, cmt |-> <<>>]

At(line, i, c) == i >= 1 /\ i <= Len(line) /\ line[i] = c

\* DATA_LINE_RE.match(line): whether it matches, and groups 1..3 (an absent
\* comment as "", as lines 40-41 do).
DATA_LINE_RE(line) ==
    LET i0 == SkipSpace(line, 1)
        i1 == SkipSpace(line, i0 + 1)
        k0 == i1 + 2
        quotes == {j \in k0..Len(line) : line[j] = QUOTE}
    IN  IF ~(/\ At(line, i0, "<data")
             /\ i1 > i0 + 1
             /\ At(line, i1, "name=")
             /\ At(line, i1 + 1, QUOTE)
             /\ quotes # {}
             /\ Min(quotes) > k0)
        THEN NoMatch
        ELSE
        LET kq == Min(quotes)
            i2 == SkipSpace(line, kq + 1)
            v0 == i2 + 5
            ends == {p \in v0..Len(line) :
                       /\ line[p] = "</value>"
                       /\ \A j \in v0..(p - 1) : IsDot(line[j])
                       /\ TailAt(line, p + 1)}
        IN  IF ~(/\ i2 > kq + 1
                 /\ At(line, i2, "xml:space=")
                 /\ At(line, i2 + 1, QUOTE)
                 /\ At(line, i2 + 2, "preserve")
                 /\ At(line, i2 + 3, QUOTE)
                 /\ At(line, i2 + 4, "><value>")
                 /\ ends # {})
            THEN NoMatch
            ELSE
            LET p  == Min(ends)
                qs == CommentEnds(line, p + 1)
            IN  [ok  |-> TRUE,
                 key |-> SubSeq(line, k0, kq - 1),
                 val |-> SubSeq(line, v0, p - 1),
                 cmt |-> IF qs = {} THEN <<>> ELSE SubSeq(line, p + 2, Min(qs) - 1)]

\* ------------------------------------------------------------ parse_resx

\* {}
EmptyDict == [k \in {} |-> <<>>]

\* The dictionaries of parse_resx after its loop over lines[0..n-1]: keys in
\* first-occurrence order; values, comments, data_lines of the last occurrence.
RECURSIVE Scan(_, _)
Scan(lines, n) ==
    IF n = 0
    THEN [keys |-> <<>>, values |-> EmptyDict, comments |-> EmptyDict,
          data_lines |-> EmptyDict,
          first_data_idx |-> -1, last_data_idx |-> -1]
    ELSE LET acc == Scan(lines, n - 1)
             idx == n - 1
             m   == DATA_LINE_RE(lines[n])
         IN  IF ~m.ok THEN acc
             ELSE [keys |-> IF m.key \in DOMAIN acc.values THEN acc.keys
                            ELSE Append(acc.keys, m.key),
                   values |-> [k \in DOMAIN acc.values \cup {m.key} |->
                                 IF k = m.key THEN m.val ELSE acc.values[k]],
                   comments |-> [k \in DOMAIN acc.comments \cup {m.key} |->
                                 IF k = m.key THEN m.cmt ELSE acc.comments[k]],
                   data_lines |-> [k \in DOMAIN acc.data_lines \cup {m.key} |->
                                 IF k = m.key THEN lines[n] ELSE acc.data_lines[k]],
                   first_data_idx |-> IF acc.first_data_idx = -1 THEN idx
                                      ELSE acc.first_data_idx,
                   last_data_idx |-> idx]

\* parse_resx on the text read from a file
parse_resx(text) ==
    LET lines == SplitLines(text)
        acc   == Scan(lines, Len(lines))
    IN  [text |-> text,
         lines |-> lines,
         keys |-> acc.keys,
         values |-> acc.values,
         comments |-> acc.comments,
         data_lines |-> acc.data_lines,
         first_data_idx |-> acc.first_data_idx,
         last_data_idx |-> acc.last_data_idx,
         prefix_lines |-> IF acc.first_data_idx >= 0
                          THEN PySlice(lines, 0, acc.first_data_idx) ELSE lines,
         suffix_lines |-> IF acc.last_data_idx >= 0
                          THEN PySlice(lines, acc.last_data_idx + 1, Len(lines))
                          ELSE <<>>]

\* -------------------------------------------------------- placeholder_sig

\* \d
IsDigit(c) == c \in {"0", "1", "2", "3", "4", "5", "6", "7", "8", "9"}

\* PLACEHOLDER_RE.findall(value) from index i on: group 1 of each match of
\* \{(\d+)\}, left to right, without overlap.
RECURSIVE PLACEHOLDER_RE(_, _)
PLACEHOLDER_RE(value, i) ==
    IF i > Len(value) THEN <<>>
    ELSE IF value[i] # "{" THEN PLACEHOLDER_RE(value, i + 1)
    ELSE LET e == Min({j \in (i + 1)..(Len(value) + 1) :
                         j = Len(value) + 1 \/ ~IsDigit(value[j])})
         IN  IF e > i + 1 /\ e <= Len(value) /\ value[e] = "}"
             THEN <<SubSeq(value, i + 1, e - 1)>> \o PLACEHOLDER_RE(value, e + 1)
             ELSE PLACEHOLDER_RE(value, i + 1)

\* (a slip: the set of the indices, sorted)
placeholder_sig_set(value) == Sorted(ToSet(PLACEHOLDER_RE(value, 1)))

\* placeholder_sig(value): tuple(sorted(findall))
placeholder_sig(value) == SortedSeq(PLACEHOLDER_RE(value, 1))

\* ------------------------------------------------------------ fix_locale

\* dict.get(key, "")
Get(dict, key) == IF key \in DOMAIN dict THEN dict[key] ELSE <<>>

\* (a slip: the missing keys in the default's order, not sorted)
missing_unsorted(default_info, locale_info) ==
    LET Test(key) == key \notin ToSet(locale_info.keys)
    IN  SelectSeq(default_info.keys, Test)

missing(default_info, locale_info) ==
    Sorted(ToSet(default_info.keys) \ ToSet(locale_info.keys))

orphaned(default_info, locale_info) ==
    Sorted(ToSet(locale_info.keys) \ ToSet(default_info.keys))

\* the test that appends key to identical
IsIdentical(dv, lv) == dv = lv /\ dv # <<>>

\* the test that appends key to placeholder_mismatches
IsMismatch(dv, lv) == placeholder_sig(dv) # placeholder_sig(lv)

identical(default_info, locale_info) ==
    LET Test(key) == /\ key \in DOMAIN locale_info.values
                     /\ IsIdentical(Get(default_info.values, key),
                                    Get(locale_info.values, key))
    IN  SelectSeq(default_info.keys, Test)

\* (a slip: the loop without `if key not in locale_info["values"]: continue`)
placeholder_mismatches_no_skip(default_info, locale_info) ==
    LET Test(key) == IsMismatch(Get(default_info.values, key),
                                Get(locale_info.values, key))
    IN  SelectSeq(default_info.keys, Test)

placeholder_mismatches(default_info, locale_info) ==
    LET Test(key) == /\ key \in DOMAIN locale_info.values
                     /\ IsMismatch(Get(default_info.values, key),
                                   Get(locale_info.values, key))
    IN  SelectSeq(default_info.keys, Test)

\* (a slip: the slice without the `+ 1`)
template_lines_short(default_info) ==
    PySlice(default_info.lines, default_info.first_data_idx, default_info.last_data_idx)

template_lines(default_info) ==
    PySlice(default_info.lines, default_info.first_data_idx,
            default_info.last_data_idx + 1)

\* (a slip: the default's line for every key)
EmitLineFromDefault(default_info, locale_info, line) ==
    LET m == DATA_LINE_RE(line)
    IN  IF m.ok THEN default_info.data_lines[m.key] ELSE line

\* what the rewrite loop appends for one template line
EmitLine(default_info, locale_info, line) ==
    LET m == DATA_LINE_RE(line)
    IN  IF m.ok
        THEN IF m.key \in DOMAIN locale_info.data_lines
             THEN locale_info.data_lines[m.key]
             ELSE default_info.data_lines[m.key]
        ELSE line

\* (a slip: out_lines without the suffix)
OutLinesNoSuffix(default_info, locale_info) ==
    LET template == template_lines(default_info)
    IN  locale_info.prefix_lines
        \o [i \in 1..Len(template) |-> EmitLine(default_info, locale_info, template[i])]

OutLines(default_info, locale_info) ==
    LET template == template_lines(default_info)
    IN  locale_info.prefix_lines
        \o [i \in 1..Len(template) |-> EmitLine(default_info, locale_info, template[i])]
        \o locale_info.suffix_lines

newline(locale_info) == IF HasCRLF(locale_info.text) THEN <<CR, LF>> ELSE <<LF>>

new_text(locale_info, lines) ==
    LET nl     == newline(locale_info)
        joined == Join(lines, nl)
    IN  IF /\ locale_info.text # <<>>
           /\ Last(locale_info.text) \in {LF, CR}
           /\ ~EndsWith(joined, nl)
        THEN joined \o nl
        ELSE joined

\* the dictionary fix_locale returns
fix_locale(default_info, locale_info) ==
    [missing_added |-> missing(default_info, locale_info),
     orphaned_removed |-> orphaned(default_info, locale_info),
     identical_values |-> identical(default_info, locale_info),
     placeholder_mismatches |-> placeholder_mismatches(default_info, locale_info),
     final_key_count |-> Len(default_info.keys)]

\* ---------------------------------------------------------- build_report

LOCALES == <<"es", "de", "fr", "it">>

DEFAULT_FILE == "default"

REPORT_FILE == "report"

\* The report, one row per line group of build_report: the total of default
\* keys, then for each locale its five counts and four lists, then the totals.
RECURSIVE SumOver(_, _, _)
SumOver(results, field, n) ==
    IF n = 0 THEN 0
    ELSE SumOver(results, field, n - 1) + Len(results[LOCALES[n]][field])

build_report(default_info, results) ==
    <<[row |-> "default", keys |-> Len(default_info.keys)]>>
    \o [i \in 1..Len(LOCALES) |-> [row |-> LOCALES[i], r |-> results[LOCALES[i]]]]
    \o <<[row |-> "summary",
          missing |-> SumOver(results, "missing_added", Len(LOCALES)),
          orphaned |-> SumOver(results, "orphaned_removed", Len(LOCALES)),
          identical |-> SumOver(results, "identical_values", Len(LOCALES)),
          ph |-> SumOver(results, "placeholder_mismatches", Len(LOCALES))]>>

\* ------------------------------------------------------------------ state

VARIABLES
    files,          \* the text of each file on disk
    pc,             \* the position of the run
    default_info,   \* parse_resx(DEFAULT_FILE)
    locale_info,    \* parse_resx(path) of the locale being processed
    results,        \* locale -> what fix_locale returned
    out_lines,      \* out_lines of the last fix_locale
    pass,           \* how many times the locale has been parsed (Spec)
    prev_result,    \* what fix_locale returned on the pass before (Spec)
    prev_text,      \* the locale file as the last fix_locale found it (Spec)
    linesep,        \* os.linesep of the platform
    cur,            \* index in LOCALES of main's loop (SpecMain)
    log,            \* the file operations of the run, in order (SpecMain)
    files0,         \* the files as the run found them (SpecMain)
    value_a,        \* the arguments and results of placeholder_sig (SpecSig)
    value_b,
    sig_a,
    sig_b

vars == <<files, pc, default_info, locale_info, results, out_lines, pass,
          prev_result, prev_text, linesep, cur, log, files0,
          value_a, value_b, sig_a, sig_b>>

Paths == {DEFAULT_FILE, REPORT_FILE} \cup ToSet(LOCALES)

NoInfo == parse_resx(<<>>)

NoResult == fix_locale(NoInfo, NoInfo)

\* ----------------------------------------------------------------- inputs

MaxDefaultLines == 2
MaxLocaleLines == 2
MaxLayoutLines == 3
MaxPass == 2
MaxParts == 2

SeqsUpTo(S, n) == UNION {[1..k -> S] : k \in 0..n}

\* a single-line record: <data name="key" xml:space="preserve"><value>val</value></data>
Rec(key, val) ==
    <<"<data", SP, "name=", QUOTE>> \o key
    \o <<QUOTE, SP, "xml:space=", QUOTE, "preserve", QUOTE, "><value>">> \o val
    \o <<"</value>", "</data>">>

\* the same with a <comment>
RecC(key, val, cmt) ==
    <<"<data", SP, "name=", QUOTE>> \o key
    \o <<QUOTE, SP, "xml:space=", QUOTE, "preserve", QUOTE, "><value>">> \o val
    \o <<"</value>", "<comment>">> \o cmt \o <<"</comment>", "</data>">>

Greeting == <<"G">>
Farewell == <<"F">>
Extra == <<"E">>

\* record lines of a default file: Greeting="{0}", Greeting="" (the key
\* again), Farewell="x"
DefaultLines ==
    {Rec(Greeting, <<"{", "0", "}">>), Rec(Greeting, <<>>), Rec(Farewell, <<"x">>)}

\* record lines of a locale file: Greeting="", Farewell="x" with a comment,
\* Extra="x"
LocaleLines ==
    {Rec(Greeting, <<>>), RecC(Farewell, <<"x">>, <<"y">>), Rec(Extra, <<"x">>)}

MkText(lines, sep, final) == Join(lines, sep) \o final

\* os.linesep: POSIX, Windows
Lineseps == {<<LF>>, <<CR, LF>>}

\* (default file, locale file, os.linesep): every sequence of records, in
\* files of LF lines on a platform whose line separator is LF
KeyInputs ==
    {<<MkText(d, <<LF>>, <<LF>>), MkText(l, <<LF>>, <<LF>>), <<LF>>>> :
        d \in SeqsUpTo(DefaultLines, MaxDefaultLines),
        l \in SeqsUpTo(LocaleLines, MaxLocaleLines)}

\* default files of the layouts: no record, two records around a blank line
LayoutDefaults ==
    {MkText(<<>>, <<LF>>, <<LF>>),
     MkText(<<Rec(Greeting, <<"x">>), <<>>, Rec(Farewell, <<"x">>)>>, <<LF>>, <<LF>>)}

\* lines of a locale file whose layout varies: a record, a line that is no
\* record, a blank line
LayoutLines == {RecC(Greeting, <<"x">>, <<"y">>), <<"y">>, <<>>}

\* <<what separates the lines, what ends the file>>: LF with and without a
\* last terminator, CR LF, mixed, a lone CR at the end, CR, and FF
Endings ==
    {<<<<LF>>, <<>>>>, <<<<LF>>, <<LF>>>>, <<<<CR, LF>>, <<CR, LF>>>>,
     <<<<CR, LF>>, <<LF>>>>, <<<<LF>>, <<CR>>>>, <<<<CR>>, <<CR>>>>,
     <<<<FF>>, <<LF>>>>}

\* (default file, locale file, os.linesep): every layout and line ending of
\* the locale file, on either platform
LayoutInputs ==
    {<<d, MkText(l, e[1], e[2]), ls>> :
        d \in LayoutDefaults,
        l \in SeqsUpTo(LayoutLines, MaxLayoutLines),
        e \in Endings, ls \in Lineseps}

\* -------------------------------------------------- Spec: the reconciler

InitFix ==
    /\ \E in \in KeyInputs \cup LayoutInputs :
          /\ files = [p \in Paths |-> IF p = DEFAULT_FILE THEN in[1]
                                      ELSE IF p = "es" THEN in[2] ELSE <<>>]
          /\ linesep = in[3]
    /\ pc = "start"
    /\ default_info = NoInfo
    /\ locale_info = NoInfo
    /\ results = EmptyDict
    /\ out_lines = <<>>
    /\ pass = 0
    /\ prev_result = NoResult
    /\ prev_text = <<>>
    /\ cur = 1
    /\ log = <<>>
    /\ files0 = files
    /\ value_a = <<>> /\ value_b = <<>> /\ sig_a = <<>> /\ sig_b = <<>>

\* default_info = parse_resx(DEFAULT_FILE)
ParseDefault ==
    /\ pc = "start"
    /\ default_info' = parse_resx(ReadText(files[DEFAULT_FILE]))
    /\ pc' = "default"
    /\ UNCHANGED <<files, locale_info, results, out_lines, pass, prev_result, prev_text, linesep,
                   cur, log, files0, value_a, value_b, sig_a, sig_b>>

\* locale_info = parse_resx(path): of the file as found, or (a later pass) of
\* the file fix_locale wrote
ParseLocale ==
    /\ pc = "default" \/ (pc = "fixed" /\ pass < MaxPass)
    /\ locale_info' = parse_resx(ReadText(files["es"]))
    /\ prev_result' = IF pc = "fixed" THEN results["es"] ELSE prev_result
    /\ pass' = pass + 1
    /\ pc' = "parsed"
    /\ UNCHANGED <<prev_text, linesep, files, default_info, results, out_lines,
                   cur, log, files0, value_a, value_b, sig_a, sig_b>>

\* results[locale] = fix_locale(default_info, locale_info), which writes the file
FixLocale ==
    /\ pc = "parsed"
    /\ out_lines' = OutLines(default_info, locale_info)
    /\ files' = [files EXCEPT !["es"] =
                    WriteText(new_text(locale_info, out_lines'), linesep)]
    /\ results' = [l \in DOMAIN results \cup {"es"} |->
                     IF l = "es" THEN fix_locale(default_info, locale_info)
                     ELSE results[l]]
    /\ prev_text' = files["es"]
    /\ pc' = "fixed"
    /\ UNCHANGED <<default_info, locale_info, pass, prev_result, linesep,
                   cur, log, files0, value_a, value_b, sig_a, sig_b>>

NextFix == ParseDefault \/ ParseLocale \/ FixLocale

Spec == InitFix /\ [][NextFix]_vars

\* ----------------------------------------------------- SpecMain: main()

\* the texts main may find in the default file and in a locale file
MainDefaults ==
    {MkText(<<Rec(Greeting, <<"{", "0", "}">>), Rec(Farewell, <<"x">>)>>, <<LF>>, <<LF>>),
     MkText(<<Rec(Farewell, <<>>)>>, <<LF>>, <<>>)}

MainLocales ==
    {MkText(<<RecC(Greeting, <<"x">>, <<"y">>)>>, <<LF>>, <<LF>>),
     MkText(<<Rec(Extra, <<"x">>), Rec(Farewell, <<>>)>>, <<CR, LF>>, <<CR, LF>>)}

InitMain ==
    /\ \E d \in MainDefaults : \E ls \in [ToSet(LOCALES) -> MainLocales] :
          files = [p \in Paths |-> IF p = DEFAULT_FILE THEN d
                                   ELSE IF p = REPORT_FILE THEN <<>> ELSE ls[p]]
    /\ linesep \in Lineseps
    /\ pc = "start"
    /\ default_info = NoInfo
    /\ locale_info = NoInfo
    /\ results = EmptyDict
    /\ out_lines = <<>>
    /\ pass = 0
    /\ prev_result = NoResult
    /\ prev_text = <<>>
    /\ cur = 1
    /\ log = <<>>
    /\ files0 = files
    /\ value_a = <<>> /\ value_b = <<>> /\ sig_a = <<>> /\ sig_b = <<>>

\* what a write_text that raises can leave in the file: open(path, "w") failed
\* and the file is as it was, or the file was truncated and holds what was
\* written before the error
FailedWrite(old, new) ==
    {old} \cup {SubSeq(new, 1, n) : n \in 0..Len(new)}

\* (a slip: the exception is caught and the run goes on)
AbortCaught(event) ==
    /\ pc' = pc
    /\ log' = Append(log, event)

\* an exception no one catches ends the run
Abort(event) ==
    /\ pc' = "aborted"
    /\ log' = Append(log, event)

\* line 217, read_text succeeds
MainParseDefault ==
    /\ pc = "start"
    /\ default_info' = parse_resx(ReadText(files[DEFAULT_FILE]))
    /\ log' = Append(log, <<"read", DEFAULT_FILE>>)
    /\ pc' = "loop"
    /\ UNCHANGED <<files, locale_info, results, out_lines, pass, prev_result, prev_text, linesep,
                   cur, files0, value_a, value_b, sig_a, sig_b>>

\* line 217, read_text raises
MainParseDefaultFails ==
    /\ pc = "start"
    /\ Abort(<<"read_failed", DEFAULT_FILE>>)
    /\ UNCHANGED <<files, default_info, locale_info, results, out_lines, pass,
                   prev_result, prev_text, linesep, cur, files0, value_a, value_b, sig_a, sig_b>>

\* line 222 for the next locale of LOCALES, read_text succeeds
MainParseLocale ==
    /\ pc = "loop"
    /\ cur <= Len(LOCALES)
    /\ locale_info' = parse_resx(ReadText(files[LOCALES[cur]]))
    /\ log' = Append(log, <<"read", LOCALES[cur]>>)
    /\ pc' = "fix"
    /\ UNCHANGED <<files, default_info, results, out_lines, pass, prev_result, prev_text, linesep,
                   cur, files0, value_a, value_b, sig_a, sig_b>>

\* line 222, read_text raises
MainParseLocaleFails ==
    /\ pc = "loop"
    /\ cur <= Len(LOCALES)
    /\ Abort(<<"read_failed", LOCALES[cur]>>)
    /\ UNCHANGED <<files, default_info, locale_info, results, out_lines, pass,
                   prev_result, prev_text, linesep, cur, files0, value_a, value_b, sig_a, sig_b>>

\* line 224: fix_locale writes the file and returns; the loop moves on
MainFixLocale ==
    /\ pc = "fix"
    /\ out_lines' = OutLines(default_info, locale_info)
    /\ files' = [files EXCEPT ![LOCALES[cur]] =
                    WriteText(new_text(locale_info, out_lines'), linesep)]
    /\ results' = [l \in DOMAIN results \cup {LOCALES[cur]} |->
                     IF l = LOCALES[cur] THEN fix_locale(default_info, locale_info)
                     ELSE results[l]]
    /\ log' = Append(log, <<"write", LOCALES[cur]>>)
    /\ cur' = cur + 1
    /\ pc' = "loop"
    /\ UNCHANGED <<default_info, locale_info, pass, prev_result, prev_text, linesep,
                   files0, value_a, value_b, sig_a, sig_b>>

\* line 122 raises: fix_locale does not return
MainFixLocaleFails ==
    /\ pc = "fix"
    /\ out_lines' = OutLines(default_info, locale_info)
    /\ \E left \in FailedWrite(files[LOCALES[cur]],
                                WriteText(new_text(locale_info, out_lines'), linesep)) :
          files' = [files EXCEPT ![LOCALES[cur]] = left]
    /\ Abort(<<"write_failed", LOCALES[cur]>>)
    /\ UNCHANGED <<default_info, locale_info, results, pass, prev_result, prev_text, linesep,
                   cur, files0, value_a, value_b, sig_a, sig_b>>

\* lines 232-233 after the loop
MainWriteReport ==
    /\ pc = "loop"
    /\ cur > Len(LOCALES)
    /\ files' = [files EXCEPT ![REPORT_FILE] = build_report(default_info, results)]
    /\ log' = Append(log, <<"write", REPORT_FILE>>)
    /\ pc' = "done"
    /\ UNCHANGED <<default_info, locale_info, results, out_lines, pass,
                   prev_result, prev_text, linesep, cur, files0, value_a, value_b, sig_a, sig_b>>

\* line 233 raises
MainWriteReportFails ==
    /\ pc = "loop"
    /\ cur > Len(LOCALES)
    /\ \E left \in FailedWrite(files[REPORT_FILE], build_report(default_info, results)) :
          files' = [files EXCEPT ![REPORT_FILE] = left]
    /\ Abort(<<"write_failed", REPORT_FILE>>)
    /\ UNCHANGED <<default_info, locale_info, results, out_lines, pass,
                   prev_result, prev_text, linesep, cur, files0, value_a, value_b, sig_a, sig_b>>

NextMain ==
    \/ MainParseDefault \/ MainParseDefaultFails
    \/ MainParseLocale \/ MainParseLocaleFails
    \/ MainFixLocale \/ MainFixLocaleFails
    \/ MainWriteReport \/ MainWriteReportFails

SpecMain == InitMain /\ [][NextMain]_vars

\* ------------------------------------------- SpecSig: placeholder_sig

\* pieces of a value: {0}, {1}, {10}, an unclosed brace, a digit and a closing
\* brace, a letter
Parts ==
    {<<"{", "0", "}">>, <<"{", "1", "}">>, <<"{", "1", "0", "}">>,
     <<"{">>, <<"0", "}">>, <<"x">>}

Values == {Flatten(ps) : ps \in SeqsUpTo(Parts, MaxParts)}

InitSig ==
    /\ value_a \in Values
    /\ value_b \in Values
    /\ sig_a = <<>>
    /\ sig_b = <<>>
    /\ pc = "sig"
    /\ files = [p \in Paths |-> <<>>]
    /\ linesep = <<LF>>
    /\ default_info = NoInfo
    /\ locale_info = NoInfo
    /\ results = EmptyDict
    /\ out_lines = <<>>
    /\ pass = 0
    /\ prev_result = NoResult
    /\ prev_text = <<>>
    /\ cur = 1
    /\ log = <<>>
    /\ files0 = files

\* placeholder_sig(dv) != placeholder_sig(lv), line 92
CompareSigs ==
    /\ pc = "sig"
    /\ sig_a' = placeholder_sig(value_a)
    /\ sig_b' = placeholder_sig(value_b)
    /\ pc' = "sig_done"
    /\ UNCHANGED <<files, default_info, locale_info, results, out_lines, pass,
                   prev_result, prev_text, linesep, cur, log, files0, value_a, value_b>>

NextSig == CompareSigs

SpecSig == InitSig /\ [][NextSig]_vars

\* ----------------------------------------------------------- properties

Max(S) == CHOOSE x \in S : \A y \in S : x >= y

\* the match of every line of a list of lines
Matches(lines) == [i \in 1..Len(lines) |-> DATA_LINE_RE(lines[i])]

\* from such matches: the indices of the key records, the keys, the index of
\* the last record of key k
RecIdx(ms) == {i \in DOMAIN ms : ms[i].ok}

KeysOf(ms) == {ms[i].key : i \in RecIdx(ms)}

LastIdx(ms, k) == Max({i \in RecIdx(ms) : ms[i].key = k})

IsAscending(s) == \A i \in 1..Len(s) : \A j \in (i + 1)..Len(s) : StrLess(s[i], s[j])

IsPrefix(s, t) == Len(s) <= Len(t) /\ s = SubSeq(t, 1, Len(s))

EndsInTerminator(text) == text # <<>> /\ Last(text) \in {LF, CR}

\* the lines of the default file, of the locale file as fix_locale found it,
\* and of the locale file as it is now
DefLines == SplitLines(ReadText(files[DEFAULT_FILE]))

OrigLines == SplitLines(ReadText(prev_text))

NewLines == SplitLines(ReadText(files["es"]))

Fixed == pc = "fixed"

\* C1 (as claimed): the second pass reports no missing and no orphaned key and
\* writes back, byte for byte, the file it found (the one the first pass wrote).
C1_SecondPassIdentical ==
    (Fixed /\ pass = 2) =>
        /\ results["es"].missing_added = <<>>
        /\ results["es"].orphaned_removed = <<>>
        /\ files["es"] = prev_text

\* C2 (as claimed): the second pass returns the identical-value list and the
\* placeholder-mismatch list the first pass returned, and no missing or
\* orphaned key.
C2_SameStatistics ==
    (Fixed /\ pass = 2) =>
        /\ results["es"].missing_added = <<>>
        /\ results["es"].orphaned_removed = <<>>
        /\ results["es"].identical_values = prev_result.identical_values
        /\ results["es"].placeholder_mismatches = prev_result.placeholder_mismatches

\* the keys the pass before filled in with a non-empty default value
FilledNonEmpty ==
    LET dl == DefLines
        dm == Matches(dl)
    IN  {k \in ToSet(prev_result.missing_added) : dm[LastIdx(dm, k)].val # <<>>}

\* What a later pass returns instead (C2): no missing and no orphaned key, the
\* placeholder mismatches of the pass before, and as identical values those
\* of the pass before together with the keys that pass filled in with a
\* non-empty default value.
C2_StatisticsAfterFill ==
    (Fixed /\ pass >= 2) =>
        LET filled == FilledNonEmpty
        IN  /\ results["es"].missing_added = <<>>
            /\ results["es"].orphaned_removed = <<>>
            /\ results["es"].placeholder_mismatches = prev_result.placeholder_mismatches
            /\ ToSet(results["es"].identical_values)
                 = ToSet(prev_result.identical_values) \cup filled
            /\ filled = {} =>
                 results["es"].identical_values = prev_result.identical_values

\* (C2) a first pass that found an identical value and filled in a non-empty one
C2_Witness ==
    /\ Fixed /\ pass = 2
    /\ FilledNonEmpty # {}
    /\ prev_result.identical_values # <<>>

\* C3: parse_resx of the file fix_locale wrote gives the default's key
\* sequence, and final_key_count is the default's key count and the number of
\* keys of the written file.
C3_KeysConverge ==
    (pc = "parsed" /\ pass >= 2) =>
        /\ locale_info.keys = default_info.keys
        /\ ToSet(locale_info.keys) = KeysOf(Matches(DefLines))
        /\ results["es"].final_key_count = Len(default_info.keys)
        /\ results["es"].final_key_count = Cardinality(KeysOf(Matches(NewLines)))

\* a default whose key occurs on two lines, a locale that lacked a key and
\* had an orphan
C3_Witness ==
    /\ pc = "parsed" /\ pass = 2
    /\ Cardinality(RecIdx(Matches(DefLines))) > Len(default_info.keys)
    /\ results["es"].missing_added # <<>>
    /\ results["es"].orphaned_removed # <<>>

\* C4: in the written file every record line of a key the locale had is the
\* locale's (last) record line of that key, every record line of a key it
\* lacked is the default's, and each default key has such a line.
C4_TranslationsKept ==
    Fixed =>
        LET dl == DefLines
            ol == OrigLines
            nl == NewLines
            dm == Matches(dl)
            om == Matches(ol)
            nm == Matches(nl)
        IN  /\ \A i \in RecIdx(nm) :
                  IF nm[i].key \in KeysOf(om)
                  THEN nl[i] = ol[LastIdx(om, nm[i].key)]
                  ELSE nl[i] = dl[LastIdx(dm, nm[i].key)]
            /\ KeysOf(dm) \subseteq KeysOf(nm)

\* a shared key whose locale line differs from the default's, and a missing key
C4_Witness ==
    /\ Fixed /\ pass = 1
    /\ LET dl == DefLines
           ol == OrigLines
           dm == Matches(dl)
           om == Matches(ol)
       IN  /\ \E k \in KeysOf(dm) \cap KeysOf(om) :
                 ol[LastIdx(om, k)] # dl[LastIdx(dm, k)]
           /\ KeysOf(dm) \ KeysOf(om) # {}

\* C5: missing_added is the default's keys the locale lacks and
\* orphaned_removed the locale's keys the default lacks, each in ascending
\* order without repeats; the written file has no record of an orphaned key
\* and a record of every missing key; default [Greeting, Farewell] and locale
\* [Greeting, Extra] give [Farewell] and [Extra].
C5_MissingOrphaned ==
    Fixed =>
        LET r  == results["es"]
            dk == KeysOf(Matches(DefLines))
            ok == KeysOf(Matches(OrigLines))
            nk == KeysOf(Matches(NewLines))
        IN  /\ ToSet(r.missing_added) = dk \ ok
            /\ ToSet(r.orphaned_removed) = ok \ dk
            /\ IsAscending(r.missing_added)
            /\ IsAscending(r.orphaned_removed)
            /\ ToSet(r.orphaned_removed) \cap nk = {}
            /\ ToSet(r.missing_added) \subseteq nk
            /\ (default_info.keys = <<Greeting, Farewell>>
                  /\ locale_info.keys = <<Greeting, Extra>>)
                 => (r.missing_added = <<Farewell>> /\ r.orphaned_removed = <<Extra>>)

C5_Witness ==
    /\ Fixed /\ pass = 1
    /\ default_info.keys = <<Greeting, Farewell>>
    /\ locale_info.keys = <<Greeting, Extra>>

\* C6: a shared key is in identical_values iff its two values are equal and
\* not empty, and in placeholder_mismatches iff their signatures differ; a key
\* the locale lacks is in neither list; no key is in both.
C6_Flags ==
    Fixed =>
        LET r == results["es"]
            ident == ToSet(r.identical_values)
            mism == ToSet(r.placeholder_mismatches)
            dm == Matches(DefLines)
            om == Matches(OrigLines)
            shared == KeysOf(dm) \cap KeysOf(om)
        IN  /\ ident \cup mism \subseteq shared
            /\ ident \cap mism = {}
            /\ \A k \in shared :
                  LET dv == dm[LastIdx(dm, k)].val
                      lv == om[LastIdx(om, k)].val
                  IN  /\ k \in ident <=> (dv = lv /\ dv # <<>>)
                      /\ k \in mism <=> placeholder_sig(dv) # placeholder_sig(lv)

\* a key empty in both files beside a key flagged identical
C6_Witness ==
    /\ Fixed /\ pass = 1
    /\ results["es"].identical_values # <<>>
    /\ LET dm == Matches(DefLines)
           om == Matches(OrigLines)
       IN  \E k \in KeysOf(dm) \cap KeysOf(om) :
              dm[LastIdx(dm, k)].val = <<>> /\ om[LastIdx(om, k)].val = <<>>

\* how often {d} occurs in a value
Count(value, d) ==
    LET tok == <<"{">> \o d \o <<"}">>
    IN  Cardinality({i \in 1..(Len(value) - Len(tok) + 1) :
                       SubSeq(value, i, i + Len(tok) - 1) = tok})

\* how often d occurs in a signature
Times(sig, d) == Cardinality({i \in 1..Len(sig) : sig[i] = d})

\* the runs of digits of a value
DigitRuns(value) ==
    {SubSeq(value, i, j) : i \in 1..Len(value), j \in 1..Len(value)}
    \cap {v \in Seq({"0", "1", "2", "3", "4", "5", "6", "7", "8", "9"}) : v # <<>>}

\* C7: placeholder_sig gives the index strings of the {d} of the value, with
\* their repeats, in ascending order, so two signatures are equal iff every
\* index occurs as often in one value as in the other (whichever comes first);
\* equal values and empty values give equal signatures; {0}{0} and {0} differ.
C7_SignatureIsMultiset ==
    pc = "sig_done" =>
        LET ds == DigitRuns(value_a) \cup DigitRuns(value_b)
                  \cup ToSet(sig_a) \cup ToSet(sig_b)
        IN  /\ \A d \in ds : /\ Times(sig_a, d) = Count(value_a, d)
                             /\ Times(sig_b, d) = Count(value_b, d)
            /\ \A i \in 1..(Len(sig_a) - 1) : ~StrLess(sig_a[i + 1], sig_a[i])
            /\ (sig_a = sig_b) <=> \A d \in ds : Count(value_a, d) = Count(value_b, d)
            /\ (sig_a # sig_b) <=> (sig_b # sig_a)
            /\ value_a = value_b => sig_a = sig_b
            /\ value_a = <<>> => sig_a = <<>>
            /\ (value_a = <<"{", "0", "}", "{", "0", "}">> /\ value_b = <<"{", "0", "}">>)
                 => sig_a # sig_b

\* {0}{0} against {0}
C7_Witness ==
    /\ pc = "sig_done"
    /\ value_a = <<"{", "0", "}", "{", "0", "}">>
    /\ value_b = <<"{", "0", "}">>
    /\ sig_a = <<<<"0">>, <<"0">>>>

\* C8 (as claimed): the written file is out_lines joined by CR LF if the file
\* found held CR LF and by LF otherwise, with or without that terminator at
\* its end; and it ends in a line terminator iff the file found did.
C8_LineEndingFidelity ==
    Fixed =>
        LET nl == IF HasCRLF(prev_text) THEN <<CR, LF>> ELSE <<LF>>
        IN  /\ files["es"] \in {Join(out_lines, nl), Join(out_lines, nl) \o nl}
            /\ EndsInTerminator(files["es"]) <=> EndsInTerminator(prev_text)

Expected ==
    <<<<"read", "default">>,
      <<"read", "es">>, <<"write", "es">>, <<"read", "de">>, <<"write", "de">>,
      <<"read", "fr">>, <<"write", "fr">>, <<"read", "it">>, <<"write", "it">>,
      <<"write", "report">>>>

HasFailed == log # <<>> /\ Last(log)[1] \in {"read_failed", "write_failed"}

Done == IF HasFailed THEN SubSeq(log, 1, Len(log) - 1) ELSE log

\* what fix_locale writes to the file of locale l in a run that found files0
Rewritten(l) ==
    LET di == parse_resx(ReadText(files0[DEFAULT_FILE]))
        li == parse_resx(ReadText(files0[l]))
    IN  WriteText(new_text(li, OutLines(di, li)), linesep)

\* the order of a run: the operations done are the first ones of Expected and
\* a failure is the next one of them, after which the run has stopped; the
\* default file is never written; a locale file written holds its new text; a
\* locale file after the one that failed is as it was; the report is written
\* when the run is done and not when it stopped at a locale.
RunOrder ==
    /\ IsPrefix(Done, Expected)
    /\ HasFailed <=> pc = "aborted"
    /\ HasFailed =>
          /\ Len(log) <= Len(Expected)
          /\ Last(log)[2] = Expected[Len(log)][2]
          /\ Last(log)[1] = IF Expected[Len(log)][1] = "read" THEN "read_failed"
                            ELSE "write_failed"
    /\ files[DEFAULT_FILE] = files0[DEFAULT_FILE]
    /\ \A l \in {"es", "de", "fr", "it"} :
          /\ <<"write", l>> \in ToSet(Done) => files[l] = Rewritten(l)
          /\ (<<"write", l>> \notin ToSet(log) /\ <<"write_failed", l>> \notin ToSet(log))
               => files[l] = files0[l]
    /\ pc = "done" <=> <<"write", "report">> \in ToSet(Done)
    /\ pc = "done" => files[REPORT_FILE] # files0[REPORT_FILE]
    /\ (HasFailed /\ Last(log)[2] # "report") => files[REPORT_FILE] = files0[REPORT_FILE]

\* C10 (as claimed): RunOrder, and the locale file at which reading or writing
\* failed is as the run found it.
C10_RunOrderAndAbort ==
    /\ RunOrder
    /\ \A l \in {"es", "de", "fr", "it"} :
          (HasFailed /\ Last(log)[2] = l) => files[l] = files0[l]

\* C10 (amended): RunOrder; the locale file whose read failed is as the run
\* found it; the locale file whose write failed is as the run found it or holds
\* the first part (none, some or all) of its new text.
C10_RunOrderAndPartialWrite ==
    /\ RunOrder
    /\ \A l \in {"es", "de", "fr", "it"} :
          /\ (HasFailed /\ Last(log) = <<"read_failed", l>>) => files[l] = files0[l]
          /\ (HasFailed /\ Last(log) = <<"write_failed", l>>) =>
                \/ files[l] = files0[l]
                \/ IsPrefix(files[l], Rewritten(l))

\* the write of de failed part-way: es stays rewritten, de is cut short, fr and
\* it are as they were, there is no report
C10_Witness ==
    /\ pc = "aborted"
    /\ Last(log) = <<"write_failed", "de">>
    /\ files["es"] # files0["es"]
    /\ files["es"] = Rewritten("es")
    /\ files["de"] # files0["de"]
    /\ files["de"] # Rewritten("de")
    /\ files["fr"] = files0["fr"]
    /\ files[REPORT_FILE] = <<>>
====
